---- MODULE Spec2Model ----
(***************************************************************************)
(* The DOAJ journal-data scripts of tabular/doaj as one state machine:     *)
(*   1_prepare-doajdata-fromcsv.py  (the primary pipeline, main() steps)   *)
(*   3_investigate_fees.py          (the fee normalizer, main() steps)     *)
(* Files on disk and the two scripts' DataFrames are the state.            *)
(*                                                                         *)
(* Representation.  Text is a TLA+ string (a sequence of characters; Len,  *)
(* SubSeq and \o act on it).  A DataFrame is a record                      *)
(*   [dtype : function from column name to dtype, index : sequence of row  *)
(*    labels, rows : sequence of functions from column name to cell].      *)
(* A missing cell (numpy.nan) of an object column is the value NaN; a      *)
(* cell of a float column is <<t>>, t its value in tenths, or <<>> (nan);   *)
(* an int column holds integers and a bool column holds booleans.  An      *)
(* exception that leaves main() puts the script at "aborted".              *)
(***************************************************************************)
EXTENDS Integers, Sequences, FiniteSets, TLC

VARIABLES
    original,      \* data/doaj-journaldata_original.csv
    countryfile,   \* data/country-data.csv
    pc,            \* where main() of 1_prepare-doajdata-fromcsv.py stands
    raised,        \* the step of it that raised, "none" so far
    data,          \* its DataFrame
    prepared,      \* data/doaj-journaldata_prepared.csv
    fpc,           \* where main() of 3_investigate_fees.py stands
    fraised,       \* the step of it that raised, "none" so far
    fdata,         \* its DataFrame
    apcs,          \* data/doaj-journaldata_apcs.csv
    jsondump,      \* the table 1_prepare-doajdata-fromjson.py makes of
                   \* data/doaj-journaldata_original.json, or no file
    jpc,           \* where main() of 1_prepare-doajdata-fromjson.py stands
    ipc,           \* where main() of 2_inspect-doajdata.py stands
    iraised,       \* the step of it that raised, "none" so far
    idata          \* its DataFrame

vars ==
    <<original, countryfile, pc, raised, data, prepared, fpc, fraised, fdata, apcs,
      jsondump, jpc, ipc, iraised, idata>>

(***************************************************************************)
(* Bounds of the model.                                                    *)
(***************************************************************************)
MaxRows == 3
MaxFragments == 2
MaxEnrichRows == 2

(***************************************************************************)
(* Text.                                                                   *)
(***************************************************************************)
\* numpy.nan in an object column; read_csv reads the empty field as this.
NaN == "NaN"

NoFile == [exists |-> FALSE]

NoFrame == [dtype |-> <<>>, index |-> <<>>, rows |-> <<>>]

\* Python's `kw in s` for two str.
Contains(kw, s) ==
    \E i \in 1..(Len(s) - Len(kw) + 1) : SubSeq(s, i, i + Len(kw) - 1) = kw

Char(s, i) == SubSeq(s, i, i)

Digits == {"0", "1", "2", "3", "4", "5", "6", "7", "8", "9"}

UpperCase ==
    {"A", "B", "C", "D", "E", "F", "G", "H", "I", "J", "K", "L", "M",
     "N", "O", "P", "Q", "R", "S", "T", "U", "V", "W", "X", "Y", "Z"}

DigitValue(c) ==
    CASE c = "0" -> 0 [] c = "1" -> 1 [] c = "2" -> 2 [] c = "3" -> 3
      [] c = "4" -> 4 [] c = "5" -> 5 [] c = "6" -> 6 [] c = "7" -> 7
      [] c = "8" -> 8 [] c = "9" -> 9

AllDigits(s) == Len(s) > 0 /\ \A i \in 1..Len(s) : Char(s, i) \in Digits

\* int(s) for a str of decimal digits.
RECURSIVE IntOfDigits(_)
IntOfDigits(s) ==
    IF Len(s) = 0 THEN 0
    ELSE 10 * IntOfDigits(SubSeq(s, 1, Len(s) - 1)) + DigitValue(Char(s, Len(s)))

\* str(n) for an int n >= 0.
RECURSIVE TextOfNat(_)
TextOfNat(n) ==
    IF n < 10 THEN Char("0123456789", n + 1)
    ELSE TextOfNat(n \div 10) \o Char("0123456789", (n % 10) + 1)

\* str(n) for an int n.
TextOfInt(n) == IF n < 0 THEN "-" \o TextOfNat(0 - n) ELSE TextOfNat(n)

\* s.strip() for the blank.
RECURSIVE Strip(_)
Strip(s) ==
    IF Len(s) > 0 /\ Char(s, 1) = " " THEN Strip(SubSeq(s, 2, Len(s)))
    ELSE IF Len(s) > 0 /\ Char(s, Len(s)) = " " THEN Strip(SubSeq(s, 1, Len(s) - 1))
    ELSE s

\* The text without its sign, and without its underscores.
Unsigned(s) ==
    IF Len(s) > 0 /\ Char(s, 1) \in {"+", "-"} THEN SubSeq(s, 2, Len(s)) ELSE s

RECURSIVE NoUnderscores(_)
NoUnderscores(s) ==
    IF Len(s) = 0 THEN ""
    ELSE IF Char(s, 1) = "_" THEN NoUnderscores(SubSeq(s, 2, Len(s)))
    ELSE Char(s, 1) \o NoUnderscores(SubSeq(s, 2, Len(s)))

\* int(s) takes the str: blanks around, a sign, decimal digits with single
\* underscores between them.
IsIntNumeral(s) ==
    LET body == Unsigned(Strip(s))
    IN  /\ Len(body) > 0
        /\ Char(body, 1) \in Digits /\ Char(body, Len(body)) \in Digits
        /\ \A i \in 1..Len(body) : Char(body, i) \in Digits \cup {"_"}
        /\ \A i \in 1..(Len(body) - 1) : ~(Char(body, i) = "_" /\ Char(body, i + 1) = "_")

\* int(s) for such a str.
IntOfNumeral(s) ==
    LET t == Strip(s)
        n == IntOfDigits(NoUnderscores(Unsigned(t)))
    IN  IF Char(t, 1) = "-" THEN 0 - n ELSE n

\* The end of the run of characters of `class` that starts at position i
\* (i - 1 when s[i] is not of the class): a greedy `[class]+`.
RECURSIVE RunEnd(_, _, _)
RunEnd(s, i, class) ==
    IF i <= Len(s) /\ Char(s, i) \in class THEN RunEnd(s, i + 1, class) ELSE i - 1

Range(f) == {f[i] : i \in DOMAIN f}

SeqsUpTo(S, n) == UNION {[1..k -> S] : k \in 1..n}

(***************************************************************************)
(* DataFrames and CSV fields.                                              *)
(***************************************************************************)
Min(a, b) == IF a < b THEN a ELSE b

\* A field that read_csv takes for a float: an unsigned decimal numeral (the
\* modelled files hold at most one decimal place).
IsDecimalText(t) ==
    \/ AllDigits(t)
    \/ /\ Len(t) >= 3
       /\ AllDigits(SubSeq(t, 1, Len(t) - 2))
       /\ Char(t, Len(t) - 1) = "."
       /\ Char(t, Len(t)) \in Digits

\* float(t) in tenths.
TenthsOf(t) ==
    IF AllDigits(t) THEN 10 * IntOfDigits(t)
    ELSE 10 * IntOfDigits(SubSeq(t, 1, Len(t) - 2)) + DigitValue(Char(t, Len(t)))

\* The dtype read_csv infers for a column from its fields.
InferDtype(fields) ==
    IF fields = {} THEN "object"
    ELSE IF \A t \in fields : AllDigits(t) THEN "int64"
    ELSE IF \A t \in fields : t = "" \/ IsDecimalText(t) THEN "float64"
    ELSE IF fields \subseteq {"True", "False"} THEN "bool"
    ELSE "object"

\* The cell read_csv builds from a field of a column of that dtype.
ParseField(dtype, t) ==
    CASE dtype = "int64"   -> IntOfDigits(t)
      [] dtype = "float64" -> IF t = "" THEN <<>> ELSE <<TenthsOf(t)>>
      [] dtype = "bool"    -> t = "True"
      [] OTHER             -> IF t = "" THEN NaN ELSE t

\* pandas.read_csv of a file [columns, rows] of text fields: one dtype per
\* column; the default RangeIndex 0..n-1, or with index_col=0 the first
\* column (the one to_csv wrote the index to, under the empty header).
PdReadCsv(file, index_col) ==
    LET n == Len(file.rows)
        cols == IF index_col THEN file.columns \ {""} ELSE file.columns
        dt == [c \in cols |-> InferDtype({file.rows[i][c] : i \in 1..n})]
    IN  [dtype |-> dt,
         index |-> [i \in 1..n |->
                      IF index_col THEN IntOfDigits(file.rows[i][""]) ELSE i - 1],
         rows  |-> [i \in 1..n |->
                      [c \in cols |-> ParseField(dt[c], file.rows[i][c])]]]

Columns(frame) == DOMAIN frame.dtype

RECURSIVE StripZeros(_)
StripZeros(t) ==
    IF Len(t) > 1 /\ Char(t, Len(t)) = "0" THEN StripZeros(SubSeq(t, 1, Len(t) - 1)) ELSE t

\* The decimal places of e8 / 10^8.
FractionText(e8) ==
    StripZeros(SubSeq("00000000", 1, 8 - Len(TextOfNat(e8))) \o TextOfNat(e8))

\* astype("string") of a cell: its text, NaN for a missing value (<NA>).
CellText(dtype, v) ==
    CASE dtype = "int64"   -> TextOfInt(v)
      [] dtype = "float64" -> IF v = <<>> THEN NaN
                              ELSE TextOfNat(v[1] \div 10) \o "." \o TextOfNat(v[1] % 10)
      [] dtype = "bool"    -> IF v THEN "True" ELSE "False"
      [] dtype = "amount"  -> TextOfNat(v.w) \o "." \o FractionText(v.e8)
      [] OTHER             -> v

\* DataFrame.replace(old, new) for a str `old`: every cell of an object
\* column that equals it, in whatever column it stands.
ReplaceValue(frame, old, new) ==
    [frame EXCEPT !.rows =
        [i \in DOMAIN frame.rows |->
            [c \in Columns(frame) |->
                IF frame.dtype[c] = "object" /\ frame.rows[i][c] = old
                THEN new ELSE frame.rows[i][c]]]]

\* data[col] = values: a new or replaced column of the given dtype.
SetColumn(frame, col, dtype, values) ==
    [dtype |-> [c \in Columns(frame) \cup {col} |->
                    IF c = col THEN dtype ELSE frame.dtype[c]],
     index |-> frame.index,
     rows  |-> [i \in DOMAIN frame.rows |->
                    [c \in Columns(frame) \cup {col} |->
                        IF c = col THEN values[i] ELSE frame.rows[i][c]]]]

(***************************************************************************)
(* 1_prepare-doajdata-fromcsv.py                                           *)
(***************************************************************************)
\* read_csv(): the empty string is replaced by nan after pandas.read_csv.
read_csv(file) == ReplaceValue(PdReadCsv(file, FALSE), "", NaN)

CountryNames ==
    [old \in {"Russian Federation", "Iran, Islamic Republic of", "Korea, Republic of",
              "Bolivia, Plurinational State of", "Brunei Darussalam",
              "Congo, The Democratic Republic of the", "Moldova, Republic of",
              "Palestine, State of", "Syrian Arab Republic",
              "Taiwan, Province of China", "Venezuela, Bolivarian Republic of"} |->
        CASE old = "Russian Federation" -> "Russia"
          [] old = "Iran, Islamic Republic of" -> "Iran"
          [] old = "Korea, Republic of" -> "Korea"
          [] old = "Bolivia, Plurinational State of" -> "Bolivia"
          [] old = "Brunei Darussalam" -> "Brunei"
          [] old = "Congo, The Democratic Republic of the" -> "Congo"
          [] old = "Moldova, Republic of" -> "Moldova"
          [] old = "Palestine, State of" -> "Palestine"
          [] old = "Syrian Arab Republic" -> "Syria"
          [] old = "Taiwan, Province of China" -> "Taiwan"
          [] old = "Venezuela, Bolivarian Republic of" -> "Venezuela"]

\* simplify_names() whose result is not assigned: the names stay.
simplify_names_dropped(frame) == frame

\* simplify_names(): DataFrame.replace with the dict, over the whole table.
simplify_names(frame) ==
    [frame EXCEPT !.rows =
        [i \in DOMAIN frame.rows |->
            [c \in Columns(frame) |->
                IF frame.dtype[c] = "object" /\ frame.rows[i][c] \in DOMAIN CountryNames
                THEN CountryNames[frame.rows[i][c]] ELSE frame.rows[i][c]]]]

HeaderNames ==
    [long \in {"Journal title", "Journal EISSN (online version)",
               "Languages in which the journal accepts manuscripts", "Publisher",
               "Country of publisher", "Journal license",
               "Machine-readable CC licensing information embedded or displayed in articles",
               "Author holds copyright without restrictions", "Review process",
               "Average number of weeks between article submission and publication",
               "APC", "APC amount",
               "Journal waiver policy (for developing country authors etc)",
               "Has other fees", "Preservation Services",
               "Persistent article identifiers", "Article metadata includes ORCIDs",
               "Journal complies with I4OC standards for open citations",
               "Does the journal comply to DOAJ's definition of open access?",
               "LCC Codes", "Subjects", "DOAJ Seal", "Added on Date",
               "Number of Article Records"} |->
        CASE long = "Journal title" -> "title"
          [] long = "Journal EISSN (online version)" -> "EISSN"
          [] long = "Languages in which the journal accepts manuscripts" -> "languages"
          [] long = "Publisher" -> "publisher"
          [] long = "Country of publisher" -> "publisher-country"
          [] long = "Journal license" -> "license"
          [] long = "Machine-readable CC licensing information embedded or displayed in articles"
                -> "license-embedded"
          [] long = "Author holds copyright without restrictions" -> "author-copyright"
          [] long = "Review process" -> "review-process"
          [] long = "Average number of weeks between article submission and publication"
                -> "publication-time"
          [] long = "APC" -> "APC"
          [] long = "APC amount" -> "APC-amount"
          [] long = "Journal waiver policy (for developing country authors etc)"
                -> "APC-waiver"
          [] long = "Has other fees" -> "other-fees"
          [] long = "Preservation Services" -> "preservation"
          [] long = "Persistent article identifiers" -> "pids"
          [] long = "Article metadata includes ORCIDs" -> "ORCIDs"
          [] long = "Journal complies with I4OC standards for open citations" -> "I4OC"
          [] long = "Does the journal comply to DOAJ's definition of open access?"
                -> "DOAJ-OA"
          [] long = "LCC Codes" -> "LCC"
          [] long = "Subjects" -> "subjects"
          [] long = "DOAJ Seal" -> "DOAJ-seal"
          [] long = "Added on Date" -> "added-date"
          [] long = "Number of Article Records" -> "article-records"]

\* The list select_columns() indexes the table with.
SelectedColumns == DOMAIN HeaderNames

\* data[[...]] and data.loc[:, [...]]: the listed columns only.
Select(frame, cols) ==
    [dtype |-> [c \in cols |-> frame.dtype[c]],
     index |-> frame.index,
     rows  |-> [i \in DOMAIN frame.rows |-> [c \in cols |-> frame.rows[i][c]]]]

\* KeyError when a listed column is absent.
select_columns_raises(frame) == ~(SelectedColumns \subseteq Columns(frame))

select_columns(frame) == Select(frame, SelectedColumns)

\* simplify_headers(): DataFrame.rename(columns=...).
simplify_headers(frame) ==
    LET new(c) == IF c \in DOMAIN HeaderNames THEN HeaderNames[c] ELSE c
        old(d) == CHOOSE c \in Columns(frame) : new(c) = d
        cols   == {new(c) : c \in Columns(frame)}
    IN  [dtype |-> [d \in cols |-> frame.dtype[old(d)]],
         index |-> frame.index,
         rows  |-> [i \in DOMAIN frame.rows |->
                        [d \in cols |-> frame.rows[i][old(d)]]]]

Column(frame, col) == [i \in DOMAIN frame.rows |-> frame.rows[i][col]]

IsMissing(dtype, v) ==
    \/ dtype = "object" /\ v = NaN
    \/ dtype = "float64" /\ v = <<>>

\* The k-th smallest of a sequence of integers.
KthSmallest(values, k) ==
    CHOOSE v \in Range(values) :
        /\ Cardinality({i \in DOMAIN values : values[i] < v}) < k
        /\ k <= Cardinality({i \in DOMAIN values : values[i] <= v})

\* Twice numpy.median of a non-empty sequence of integers: the middle one,
\* or the mean of the two middle ones.
Median2(values) ==
    LET n == Len(values)
    IN  IF n % 2 = 1 THEN 2 * KthSmallest(values, (n + 1) \div 2)
        ELSE KthSmallest(values, n \div 2) + KthSmallest(values, n \div 2 + 1)

\* `value <= np.median(column)`: a year at the median counts as early.
AtOrBelowMedian(value, values) == 2 * value <= Median2(values)

\* `value < np.median(column)` for a column of integers.
BelowMedian(value, values) == 2 * value < Median2(values)

\* .astype("string").str[0:4] of an added-date cell.
YearText(dtype, v) ==
    LET t == CellText(dtype, v) IN IF t = NaN THEN NaN ELSE SubSeq(t, 1, Min(4, Len(t)))

\* .astype("int") raises for <NA> and for text that int() does not take.
YearFails(dtype, v) == YearText(dtype, v) = NaN \/ ~IsIntNumeral(YearText(dtype, v))

\* [True if value < np.median(column) else False for value in column] for the
\* publication-time column: nan in the column makes the median nan and
\* every comparison false.
FastFlags(frame) ==
    LET dt == frame.dtype["publication-time"]
        col == Column(frame, "publication-time")
    IN  CASE dt = "int64" -> [i \in DOMAIN col |-> BelowMedian(col[i], col)]
          [] dt = "float64" ->
                IF \E i \in DOMAIN col : col[i] = <<>> THEN [i \in DOMAIN col |-> FALSE]
                ELSE LET tenths == [i \in DOMAIN col |-> col[i][1]]
                     IN  [i \in DOMAIN col |-> BelowMedian(tenths[i], tenths)]

\* [True if literal in value else False for value in data[col]].
EqualsFlags_contains(frame, col, literal) ==
    [i \in DOMAIN frame.rows |->
        frame.dtype[col] = "object" /\ frame.rows[i][col] # NaN
            /\ Contains(literal, frame.rows[i][col])]

\* [True if value == literal else False for value in data[col]].
EqualsFlags(frame, col, literal) ==
    [i \in DOMAIN frame.rows |->
        frame.dtype[col] = "object" /\ frame.rows[i][col] = literal]

\* The replacement within the columns that hold answers only.
replace_yes_no_in_answers(frame) ==
    [frame EXCEPT !.rows =
        [i \in DOMAIN frame.rows |->
            [c \in Columns(frame) |->
                IF /\ frame.dtype[c] = "object"
                   /\ \A j \in DOMAIN frame.rows : frame.rows[j][c] \in {"Yes", "No", NaN}
                THEN CASE frame.rows[i][c] = "Yes" -> "True"
                       [] frame.rows[i][c] = "No" -> "False"
                       [] OTHER -> frame.rows[i][c]
                ELSE frame.rows[i][c]]]]

\* data.replace("Yes", "True", ...) and data.replace("No", "False", ...): the
\* str "True" and the str "False", in every column.
replace_yes_no(frame) == ReplaceValue(ReplaceValue(frame, "Yes", "True"), "No", "False")

\* simplify_values() raises: a date that has no year, or np.median over an
\* object column (text among the publication times).
simplify_values_raises(frame) ==
    \/ \E i \in DOMAIN frame.rows :
            YearFails(frame.dtype["added-date"], frame.rows[i]["added-date"])
    \/ frame.dtype["publication-time"] = "object"

simplify_values(frame) ==
    LET years == [i \in DOMAIN frame.rows |->
                    IntOfNumeral(YearText(frame.dtype["added-date"],
                                          frame.rows[i]["added-date"]))]
        d1 == SetColumn(frame, "added-date", "int64", years)
        d2 == SetColumn(d1, "created-early", "bool",
                        [i \in DOMAIN years |-> BelowMedian(years[i], years)])
        d3 == SetColumn(d2, "publication-time-fast", "bool", FastFlags(d2))
        d4 == SetColumn(d3, "English-only", "bool",
                        EqualsFlags(d3, "languages", "English"))
        d5 == SetColumn(d4, "CCBY", "bool", EqualsFlags(d4, "license", "CC BY"))
    IN  replace_yes_no(d5)

\* The keywords simplify() tests, in its order, each with the value of its
\* branch.
KeywordList ==
    << <<"Social", "SocialSciences">>, <<"Science", "Science">>, <<"Biology", "Science">>,
       <<"Chemistry", "Science">>, <<"Medicine", "Medicine">>, <<"History", "Humanities">>,
       <<"history", "Humanities">>, <<"Philosophy", "Humanities">>,
       <<"Language", "Humanities">>, <<"Literature", "Humanities">>,
       <<"Music", "Humanities">>, <<"Arts", "Humanities">>, <<"Museums", "Humanities">>,
       <<"Law", "SocialSciences">>, <<"Political", "SocialSciences">>,
       <<"Psychology", "SocialSciences">>, <<"Geography", "SocialSciences">>,
       <<"Technology", "Technology">>, <<"Agriculture", "Agriculture">>,
       <<"Education", "Education">>, <<"Library", "LIS">>, <<"Information", "LIS">>,
       <<"General", "General">> >>

\* simplify() with `if` for every `elif`: the last keyword found wins.
simplify_last_wins(subjects) ==
    LET hits == {k \in DOMAIN KeywordList : Contains(KeywordList[k][1], subjects)}
    IN  IF hits = {} THEN "other"
        ELSE KeywordList[CHOOSE k \in hits : \A h \in hits : h <= k][2]

\* simplify(row): the if/elif chain over row["subjects"].
simplify(subjects) ==
    IF Contains("Social", subjects) THEN "SocialSciences"
    ELSE IF Contains("Science", subjects) THEN "Science"
    ELSE IF Contains("Biology", subjects) THEN "Science"
    ELSE IF Contains("Chemistry", subjects) THEN "Science"
    ELSE IF Contains("Medicine", subjects) THEN "Medicine"
    ELSE IF Contains("History", subjects) THEN "Humanities"
    ELSE IF Contains("history", subjects) THEN "Humanities"
    ELSE IF Contains("Philosophy", subjects) THEN "Humanities"
    ELSE IF Contains("Language", subjects) THEN "Humanities"
    ELSE IF Contains("Literature", subjects) THEN "Humanities"
    ELSE IF Contains("Music", subjects) THEN "Humanities"
    ELSE IF Contains("Arts", subjects) THEN "Humanities"
    ELSE IF Contains("Museums", subjects) THEN "Humanities"
    ELSE IF Contains("Law", subjects) THEN "SocialSciences"
    ELSE IF Contains("Political", subjects) THEN "SocialSciences"
    ELSE IF Contains("Psychology", subjects) THEN "SocialSciences"
    ELSE IF Contains("Geography", subjects) THEN "SocialSciences"
    ELSE IF Contains("Technology", subjects) THEN "Technology"
    ELSE IF Contains("Agriculture", subjects) THEN "Agriculture"
    ELSE IF Contains("Education", subjects) THEN "Education"
    ELSE IF Contains("Library", subjects) THEN "LIS"
    ELSE IF Contains("Information", subjects) THEN "LIS"
    ELSE IF Contains("General", subjects) THEN "General"
    ELSE "other"

\* `kw in row["subjects"]` raises TypeError for a cell that is no str.
simplify_raises(frame) ==
    \/ frame.dtype["subjects"] # "object"
    \/ \E i \in DOMAIN frame.rows : frame.rows[i]["subjects"] = NaN

\* simplify_subjects(): data["domain"] = data.apply(simplify, axis=1).
simplify_subjects(frame) ==
    SetColumn(frame, "domain", "object",
              [i \in DOMAIN frame.rows |-> simplify(frame.rows[i]["subjects"])])

\* An indicator set like the language flags: the value occurs in the cell.
DummyFlagBySubstring(cellText, valueText) ==
    cellText # NaN /\ Contains(valueText, cellText)

\* One indicator of pandas.get_dummies: the cell is the column's value (a
\* missing cell has no indicator set).
DummyFlag(cellText, valueText) == cellText # NaN /\ cellText = valueText

\* pandas.get_dummies(data[col], prefix=prefix, dtype=bool) joined to the
\* table: one bool column per distinct value of the column.
WithDummies(frame, col, prefix) ==
    LET text(i) == CellText(frame.dtype[col], frame.rows[i][col])
        values  == {text(i) : i \in DOMAIN frame.rows} \ {NaN}
        name(v) == prefix \o "_" \o v
        new     == {name(v) : v \in values}
        of(d)   == CHOOSE v \in values : name(v) = d
        cols    == Columns(frame) \cup new
    IN  [dtype |-> [c \in cols |-> IF c \in new THEN "bool" ELSE frame.dtype[c]],
         index |-> frame.index,
         rows  |-> [i \in DOMAIN frame.rows |->
                        [c \in cols |-> IF c \in new THEN DummyFlag(text(i), of(c))
                                        ELSE frame.rows[i][c]]]]

\* The literal list of one_hot_encoding().
languages ==
    <<"English", "German", "French", "Portuguese", "Italian", "Spanish",
      "Chinese", "Indonesian", "Arabic", "Malay", "Swedish", "Polish",
      "Hungarian", "Czech", "Greek", "Danish", "Catalan", "Croatian",
      "Romanian", "Ukrainian", "Japanese", "Persian", "Russian", "Serbian", "Turkish">>

\* True if value == lang else False: the whole field, as for English-only.
LanguageFlagExact(lang, value) == value = lang

\* True if lang in value else False.
LanguageFlag(lang, value) == Contains(lang, value)

\* `lang in value` raises TypeError for a cell that is no str.
one_hot_encoding_raises(frame) ==
    \/ frame.dtype["languages"] # "object"
    \/ \E i \in DOMAIN frame.rows : frame.rows[i]["languages"] = NaN

RECURSIVE WithLanguages(_, _)
WithLanguages(frame, k) ==
    IF k = 0 THEN frame
    ELSE LET before == WithLanguages(frame, k - 1)
         IN  SetColumn(before, "lang_" \o languages[k], "bool",
                       [i \in DOMAIN before.rows |->
                           LanguageFlag(languages[k], before.rows[i]["languages"])])

one_hot_encoding(frame) ==
    WithLanguages(WithDummies(WithDummies(frame, "publisher-country", "pc"),
                              "domain", "d"),
                  Len(languages))

\* The positions of the set P, in order.
Kept(P) ==
    [k \in 1..Cardinality(P) |->
        CHOOSE i \in P : Cardinality({j \in P : j < i}) = k - 1]

\* data.dropna() without the subset: a gap in any column drops the row.
filter_any_gap(frame) ==
    LET keep(i) == \A c \in Columns(frame) : ~IsMissing(frame.dtype[c], frame.rows[i][c])
        pos == Kept({i \in DOMAIN frame.rows : keep(i)})
    IN  [dtype |-> frame.dtype,
         index |-> [k \in DOMAIN pos |-> frame.index[pos[k]]],
         rows  |-> [k \in DOMAIN pos |-> frame.rows[pos[k]]]]

\* filter_incomplete_data(): data.dropna(subset=["EISSN"]); the rows that stay
\* keep their index labels.
filter_incomplete_data(frame) ==
    LET keep(i) == ~IsMissing(frame.dtype["EISSN"], frame.rows[i]["EISSN"])
        pos == Kept({i \in DOMAIN frame.rows : keep(i)})
    IN  [dtype |-> frame.dtype,
         index |-> [k \in DOMAIN pos |-> frame.index[pos[k]]],
         rows  |-> [k \in DOMAIN pos |-> frame.rows[pos[k]]]]

\* countrydata["stateLabel"] == country: elementwise ==, false for nan.
CellEquals(dt1, v1, dt2, v2) ==
    /\ ~IsMissing(dt1, v1)
    /\ ~IsMissing(dt2, v2)
    /\ \/ dt1 = "object" /\ dt2 = "object" /\ v1 = v2
       \/ dt1 = "int64" /\ dt2 = "int64" /\ v1 = v2
       \/ dt1 = "float64" /\ dt2 = "float64" /\ v1 = v2
       \/ dt1 = "int64" /\ dt2 = "float64" /\ <<10 * v1>> = v2
       \/ dt1 = "float64" /\ dt2 = "int64" /\ v1 = <<10 * v2>>

\* int(x) raises for nan and for a str that is no integer numeral.
IntRaises(dtype, v) ==
    \/ IsMissing(dtype, v)
    \/ dtype = "object" /\ ~IsIntNumeral(v)

\* int(x): a float is truncated, a str is parsed, True is 1.
IntOf(dtype, v) ==
    CASE dtype = "int64"   -> v
      [] dtype = "float64" -> v[1] \div 10
      [] dtype = "bool"    -> IF v THEN 1 ELSE 0
      [] OTHER             -> IntOfNumeral(v)

\* lookup() with .iloc[0] for .item(): of several rows of the country, the
\* first one's value.
lookup_first_hit(frame, i, countrydata, label) ==
    LET hits == IF "stateLabel" \in Columns(countrydata)
                THEN {j \in DOMAIN countrydata.rows :
                        CellEquals(countrydata.dtype["stateLabel"],
                                   countrydata.rows[j]["stateLabel"],
                                   frame.dtype["publisher-country"],
                                   frame.rows[i]["publisher-country"])}
                ELSE {}
    IN  IF label \notin Columns(countrydata) \/ hits = {} THEN 0
        ELSE LET j == CHOOSE h \in hits : \A g \in hits : h <= g
             IN  IF IntRaises(countrydata.dtype[label], countrydata.rows[j][label])
                 THEN 0
                 ELSE IntOf(countrydata.dtype[label], countrydata.rows[j][label])

\* lookup(x, countrydata, label): the value of the one row whose stateLabel is
\* the row's country, as an int; 0 when anything raises (a missing column,
\* .item() on no row or on several, int() of nan or of text).
lookup(frame, i, countrydata, label) ==
    LET hits == IF "stateLabel" \in Columns(countrydata)
                THEN {j \in DOMAIN countrydata.rows :
                        CellEquals(countrydata.dtype["stateLabel"],
                                   countrydata.rows[j]["stateLabel"],
                                   frame.dtype["publisher-country"],
                                   frame.rows[i]["publisher-country"])}
                ELSE {}
    IN  IF label \notin Columns(countrydata) \/ Cardinality(hits) # 1 THEN 0
        ELSE LET j == CHOOSE h \in hits : TRUE
             IN  IF IntRaises(countrydata.dtype[label], countrydata.rows[j][label])
                 THEN 0
                 ELSE IntOf(countrydata.dtype[label], countrydata.rows[j][label])

\* DataFrame.drop(["year"], axis=1).
DropColumn(frame, col) ==
    [dtype |-> [c \in Columns(frame) \ {col} |-> frame.dtype[c]],
     index |-> frame.index,
     rows  |-> [i \in DOMAIN frame.rows |->
                    [c \in Columns(frame) \ {col} |-> frame.rows[i][c]]]]

\* add_external_data() raises: no reference file, no "year" column to drop,
\* or an empty table (DataFrame.apply then returns a DataFrame, which
\* cannot be assigned to the single column).
add_external_data_raises(frame, file) ==
    \/ ~file.exists
    \/ "year" \notin file.columns
    \/ Len(frame.rows) = 0

add_external_data(frame, file) ==
    LET countrydata == DropColumn(PdReadCsv(file, FALSE), "year")
        d1 == SetColumn(frame, "gdp", "int64",
                        [i \in DOMAIN frame.rows |-> lookup(frame, i, countrydata, "gdp")])
    IN  SetColumn(d1, "population", "int64",
                  [i \in DOMAIN d1.rows |-> lookup(d1, i, countrydata, "population")])

\* DataFrame.to_csv(outfile, sep=sep): the index first, under an empty
\* header, then every column; a missing value is written as the empty field.
ToCsv(frame, sep) ==
    LET field(c, v) == IF IsMissing(frame.dtype[c], v) THEN ""
                       ELSE CellText(frame.dtype[c], v)
    IN  [exists  |-> TRUE,
         sep     |-> sep,
         columns |-> Columns(frame) \cup {""},
         rows    |-> [i \in DOMAIN frame.rows |->
                        [c \in Columns(frame) \cup {""} |->
                            IF c = "" THEN TextOfNat(frame.index[i])
                            ELSE field(c, frame.rows[i][c])]]]

\* save_data() of the primary pipeline.
save_data(frame) == ToCsv(frame, ";")

(***************************************************************************)
(* 3_investigate_fees.py                                                   *)
(* A Python value is [type, text], text being what str() makes of it.      *)
(* An amount in EUR is [float, w, e8]: w + e8 / 10^8, exact decimal        *)
(* arithmetic standing for the float product; float tells the int of the   *)
(* EUR and zero branches from the float of the others.                     *)
(***************************************************************************)
\* The Python object that Series.apply hands over for a cell.
PyValue(dtype, v) ==
    IF IsMissing(dtype, v) THEN [type |-> "float", text |-> "nan"]
    ELSE [type |-> CASE dtype = "object" -> "str"
                     [] dtype = "int64" -> "int"
                     [] dtype = "float64" -> "float"
                     [] dtype = "bool" -> "bool",
          text |-> CellText(dtype, v)]

\* x itself where str(x) is meant: the cell as Series.apply hands it over.
str_left_out(x) == x

\* str(x)
str(x) == [type |-> "str", text |-> x.text]

\* The first position from i on that holds a character of the class
\* (Len(s) + 1 when there is none).
RECURSIVE FirstIn(_, _, _)
FirstIn(s, i, class) ==
    IF i > Len(s) \/ Char(s, i) \in class THEN i ELSE FirstIn(s, i + 1, class)

\* re.match and re.findall raise TypeError for anything but a str.
ReRaises(x) == x.type # "str"

\* identify_amount() with re.search for re.match: the first run of digits
\* anywhere in the text.
identify_amount_anywhere(x) ==
    LET s == str(x).text
        b == FirstIn(s, 1, Digits)
    IN  IF b <= Len(s) THEN IntOfDigits(SubSeq(s, b, RunEnd(s, b, Digits))) ELSE 0

\* identify_amount(x): re.match("\d+", str(x)), the int of the match or 0.
identify_amount(x) ==
    LET s == str(x).text
        e == RunEnd(s, 1, Digits)
    IN  IF e >= 1 THEN IntOfDigits(SubSeq(s, 1, e)) ELSE 0

identify_amount_raises(x) == ReRaises(str(x))

\* The last position up to i that holds a character of the class (0 when
\* there is none), and the start of the run that ends at i.
RECURSIVE LastIn(_, _, _)
LastIn(s, i, class) ==
    IF i = 0 \/ Char(s, i) \in class THEN i ELSE LastIn(s, i - 1, class)

RECURSIVE RunStart(_, _, _)
RunStart(s, i, class) ==
    IF i >= 1 /\ Char(s, i) \in class THEN RunStart(s, i - 1, class) ELSE i + 1

\* identify_currency() with x[-1] for x[0]: the last run of capitals.
identify_currency_last(x) ==
    LET s == str(x).text
        e == LastIn(s, Len(s), UpperCase)
    IN  IF e >= 1 THEN SubSeq(s, RunStart(s, e, UpperCase), e) ELSE "XXX"

\* identify_currency(x): re.findall("[A-Z]+", str(x))[0], or "XXX".
identify_currency(x) ==
    LET s == str(x).text
        b == FirstIn(s, 1, UpperCase)
    IN  IF b <= Len(s) THEN SubSeq(s, b, RunEnd(s, b, UpperCase)) ELSE "XXX"

identify_currency_raises(x) == ReRaises(str(x))

IntAmount(n) == [float |-> FALSE, w |-> n, e8 |-> 0]

\* apc_num * rate for a rate of r8 / 10^8.
Times(num, r8) ==
    LET a == num * (r8 \div 10000)
        b == num * (r8 % 10000)
        c == a + (b \div 10000)
    IN  [float |-> TRUE, w |-> c \div 10000, e8 |-> ((c % 10000) * 10000) + (b % 10000)]

\* The elif chain of calculate_eur() after the EUR branch, in its order: the
\* code compared with and the rate multiplied by, in units of 10^-8.
Conversions ==
    << <<"USD", 89190000>>, <<"IDR", 6091>>, <<"PLN", 21470000>>,
       <<"GDP", 112740000>>, <<"INR", 1090000>>, <<"JPY", 661500>>,
       <<"BRL", 18050000>>, <<"NOK", 8439000>>, <<"CHF", 99400000>>,
       <<"ZAR", 4854000>>, <<"MXN", 5019000>>, <<"ZAR", 4854000>>,
       <<"PKR", 314500>>, <<"ARS", 394200>>, <<"RSD", 838000>>,
       <<"RUB", 1162000>>, <<"IQD", 68070>>, <<"CAD", 66680000>>,
       <<"RON", 19950000>>, <<"UAH", 2438000>>, <<"EGP", 2890000>>,
       <<"CNY", 12900000>>, <<"IRR", 2123>>, <<"SGD", 67320000>>,
       <<"AUD", 60210000>>, <<"CZK", 4203000>>, <<"GHS", 7700000>>,
       <<"KPW", 201300>>, <<"KZT", 201300>>, <<"KRW", 67680>>,
       <<"MAD", 8927000>>, <<"MDL", 5021000>>, <<"NGN", 193700>>,
       <<"PEN", 24140000>>, <<"PKR", 314500>>, <<"SYP", 35500>>,
       <<"THB", 2627000>>, <<"TRY", 4574000>>, <<"VND", 3804>>,
       <<"XAF", 152400>>, <<"XOF", 152400>>, <<"YER", 356400>> >>

\* The chain with a final else that leaves apc_eur = apc_num.
RECURSIVE Convert_else_keeps_amount(_, _, _)
Convert_else_keeps_amount(apc_num, apc_curr, k) ==
    IF k > Len(Conversions) THEN [apc_eur |-> IntAmount(apc_num), apc_curr |-> "XXX"]
    ELSE IF apc_curr = Conversions[k][1]
         THEN [apc_eur |-> Times(apc_num, Conversions[k][2]), apc_curr |-> apc_curr]
         ELSE Convert_else_keeps_amount(apc_num, apc_curr, k + 1)

\* The chain from its k-th branch on: the first branch whose code is
\* apc_curr multiplies; the final else gives 0 and the code "XXX".
RECURSIVE Convert(_, _, _)
Convert(apc_num, apc_curr, k) ==
    IF k > Len(Conversions) THEN [apc_eur |-> IntAmount(0), apc_curr |-> "XXX"]
    ELSE IF apc_curr = Conversions[k][1]
         THEN [apc_eur |-> Times(apc_num, Conversions[k][2]), apc_curr |-> apc_curr]
         ELSE Convert(apc_num, apc_curr, k + 1)

\* calculate_eur(x) up to its return: the locals apc_eur and apc_curr.
calculate_eur_locals(x) ==
    LET apc_num == identify_amount(x)
        apc_curr == identify_currency(x)
    IN  IF apc_num = 0 THEN [apc_eur |-> IntAmount(0), apc_curr |-> "XXX"]
        ELSE IF apc_curr = "EUR"
             THEN [apc_eur |-> IntAmount(apc_num), apc_curr |-> apc_curr]
             ELSE Convert(apc_num, apc_curr, 1)

\* calculate_eur(x) returns apc_eur alone.
calculate_eur(x) == calculate_eur_locals(x).apc_eur

calculate_eur_raises(x) == identify_amount_raises(x) \/ identify_currency_raises(x)

\* The columns read_csv() of the fee script keeps.
FeeColumns == {"EISSN", "title", "publisher-country", "APC", "APC-amount", "CCBY", "domain"}

\* read_csv() raises: no prepared file, or a listed column is not among the
\* columns parsed with sep=";" (a file written with another separator
\* parses to a single column).
fee_read_csv_raises(file) ==
    \/ ~file.exists
    \/ file.sep # ";"
    \/ ~(FeeColumns \subseteq file.columns \ {""})

fee_read_csv(file) == Select(PdReadCsv(file, TRUE), FeeColumns)

AmountGeq(a, b) == a.w > b.w \/ (a.w = b.w /\ a.e8 >= b.e8)

\* data["APC-EUR"] = data["APC-amount"].apply(calculate_eur): a column of
\* dtype int64 when every result is an int, else of floats ("amount").
WithApcEur(frame) ==
    LET eur == [i \in DOMAIN frame.rows |->
                    calculate_eur(PyValue(frame.dtype["APC-amount"],
                                          frame.rows[i]["APC-amount"]))]
    IN  IF \E i \in DOMAIN eur : eur[i].float
        THEN SetColumn(frame, "APC-EUR", "amount", eur)
        ELSE SetColumn(frame, "APC-EUR", "int64", [i \in DOMAIN eur |-> eur[i].w])

apc_in_eur_raises(frame) ==
    \E i \in DOMAIN frame.rows :
        calculate_eur_raises(PyValue(frame.dtype["APC-amount"], frame.rows[i]["APC-amount"]))

EurOf(frame, i) ==
    IF frame.dtype["APC-EUR"] = "int64" THEN IntAmount(frame.rows[i]["APC-EUR"])
    ELSE frame.rows[i]["APC-EUR"]

\* An order data.sort_values(by="APC-EUR", ascending=False) may leave the
\* rows in: descending amounts, equal amounts in any order (quicksort).
IsSortedDescending(frame, order) ==
    /\ order \in [1..Len(frame.rows) -> 1..Len(frame.rows)]
    /\ \A i, j \in DOMAIN order : i # j => order[i] # order[j]
    /\ \A i, j \in DOMAIN order :
            i < j => AmountGeq(EurOf(frame, order[i]), EurOf(frame, order[j]))

Reorder(frame, order) ==
    [dtype |-> frame.dtype,
     index |-> [k \in DOMAIN order |-> frame.index[order[k]]],
     rows  |-> [k \in DOMAIN order |-> frame.rows[order[k]]]]

(***************************************************************************)
(* The input files the model is run on.                                    *)
(***************************************************************************)
InputColumns == SelectedColumns \cup {"Journal URL"}

\* A journal of the DOAJ dump, every field in place.
DefaultRow ==
    [c \in InputColumns |->
        CASE c = "Journal title" -> "Acta"
          [] c = "Journal URL" -> "https://acta.example.org"
          [] c = "Journal EISSN (online version)" -> "1234-5678"
          [] c = "Languages in which the journal accepts manuscripts" -> "English"
          [] c = "Publisher" -> "University Press"
          [] c = "Country of publisher" -> "Germany"
          [] c = "Journal license" -> "CC BY"
          [] c = "Review process" -> "Peer review"
          [] c = "Average number of weeks between article submission and publication" -> "12"
          [] c = "APC" -> "No"
          [] c = "APC amount" -> ""
          [] c = "Preservation Services" -> ""
          [] c = "Persistent article identifiers" -> "DOI"
          [] c = "Does the journal comply to DOAJ's definition of open access?" -> "Yes"
          [] c = "LCC Codes" -> "Q"
          [] c = "Subjects" -> "Science"
          [] c = "Added on Date" -> "2004-03-01T12:00:00Z"
          [] c = "Number of Article Records" -> "10"
          [] OTHER -> "No"]

CsvFile(columns, rows) ==
    [exists |-> TRUE, sep |-> ",", columns |-> columns, rows |-> rows]

\* The tables of 1..n rows drawn from a set of rows.
Tables(rowset, n) == {CsvFile(InputColumns, rows) : rows \in SeqsUpTo(rowset, n)}

\* Subject texts: up to MaxFragments fragments of subject lists, joined.
SubjectFragments ==
    {"Social Sciences", "Science", "history of ", "Medicine", "Law",
     "Technology", "social science", "Pre"}

RECURSIVE Joined(_, _)
Joined(fragments, n) ==
    IF n = 0 THEN {""}
    ELSE LET shorter == Joined(fragments, n - 1)
         IN  shorter \cup {t \o f : t \in shorter, f \in fragments}

SubjectRows ==
    {("Subjects" :> t) @@ DefaultRow : t \in Joined(SubjectFragments, MaxFragments)}

MedianRows ==
    {("Added on Date" :> p[1]) @@ ("Journal EISSN (online version)" :> p[2]) @@ DefaultRow :
        p \in {<<"2003-05-13T10:00:00Z", "">>, <<"2003-05-13T10:00:00Z", "1234-5678">>,
               <<"2004-03-01T12:00:00Z", "">>, <<"2004-03-01T12:00:00Z", "1234-5678">>,
               <<"2006-11-30T08:30:00Z", "1234-5678">>}}

CountryRows ==
    {("Country of publisher" :> p[1]) @@ ("Journal EISSN (online version)" :> p[2]) @@ DefaultRow :
        p \in {<<"", "2345-6789">>, <<"Niger", "2345-6789">>,
               <<"Nigeria", "2345-6789">>, <<"Nigeria", "">>}}

LanguageRows ==
    {("Languages in which the journal accepts manuscripts" :> p[1])
        @@ ("Subjects" :> p[2]) @@ DefaultRow :
        p \in {<<"English, French", "Science">>,
               <<"Malayalam", "Law and history">>, <<"Old English; Russian", "Zoology">>,
               <<"Esperanto", "Science">>, <<"", "Medicine">>}}

EnrichRows ==
    {("Country of publisher" :> c) @@ DefaultRow :
        c \in {"", "Niger", "Russian Federation", "Atlantis"}}

\* Fee texts: a number, a currency code and what stands between and around.
FeeGrid ==
    {a \o b \o c : a \in {"", "0", "500", "750", "007", "APC"},
                   b \in {"", " "},
                   c \in {"", "USD", "EUR", "GBP", "usd", "IDR 20", "Euro"}}
    \cup {c \o b \o a : a \in {"500", "12.5"}, b \in {"", " "}, c \in {"USD", "EUR", "ca. "}}

FeeGridRows == {("APC amount" :> t) @@ ("APC" :> "Yes") @@ DefaultRow : t \in FeeGrid}

FeeRows ==
    {("APC amount" :> t) @@ ("APC" :> "Yes") @@ DefaultRow :
        t \in {"", "500USD", "750EUR", "2000 EGP; 200 USD", "300"}}

\* A journal of the Russian Federation with two subjects, two languages and
\* a fee in EUR, with and without its EISSN, and a neighbour.
ScenarioRows ==
    {("Country of publisher" :> "Russian Federation")
        @@ ("Subjects" :> "Social Sciences; Law")
        @@ ("Languages in which the journal accepts manuscripts" :> "English, Russian")
        @@ ("APC" :> "Yes") @@ ("APC amount" :> "750EUR")
        @@ ("Journal EISSN (online version)" :> e) @@ DefaultRow : e \in {"", "1234-5678"}}
    \cup {("APC" :> "Yes") @@ ("APC amount" :> "2000USD") @@ DefaultRow}

\* Journals whose title is an answer, or holds one.
YesNoRows == {("Journal title" :> t) @@ DefaultRow : t \in {"Yes", "No", "Yes and No"}}

\* Journals that take English only, English among others, or no English.
EnglishRows ==
    {("Languages in which the journal accepts manuscripts" :> t) @@ DefaultRow :
        t \in {"English", "English, French", "German"}}

\* Journals with and without a publication time.
PublicationRows ==
    {("Average number of weeks between article submission and publication" :> p[1])
        @@ ("Journal EISSN (online version)" :> p[2]) @@ DefaultRow :
        p \in {<<"8", "1234-5678">>, <<"20", "">>, <<"", "1234-5678">>}}

\* Dates with and without a year at their start, and files that lack a
\* column.
StrictRows ==
    {("Added on Date" :> d) @@ DefaultRow :
        d \in {"", "n.d.", "200x-01-01", "20", " 2004-03-01T12:00:00Z",
               "2005-01-01T00:00:00Z"}}

ShortTables ==
    {CsvFile(InputColumns \ {c}, <<[k \in InputColumns \ {c} |-> DefaultRow[k]]>>) :
        c \in {"Added on Date", "APC amount", "Journal URL"}}

CountryColumns == {"stateLabel", "gdp", "population", "year"}

CountryRow(label, gdp, population) ==
    [c \in CountryColumns |->
        CASE c = "stateLabel" -> label [] c = "gdp" -> gdp
          [] c = "population" -> population [] c = "year" -> "2020"]

\* Reference tables: whole numbers; decimals and a gap; a label twice; text
\* among the numbers; no "year" column.
CountryFiles ==
    {CsvFile(CountryColumns,
             <<CountryRow("Niger", "13", "24"), CountryRow("Russia", "1500", "144"),
               CountryRow("Germany", "3800", "83")>>),
     CsvFile(CountryColumns,
             <<CountryRow("Niger", "13.5", ""), CountryRow("Russia", "1500", "144.2")>>),
     CsvFile(CountryColumns,
             <<CountryRow("Niger", "13", "24"), CountryRow("Niger", "14", "25"),
               CountryRow("Russia", "1500", "144")>>),
     CsvFile(CountryColumns,
             <<CountryRow("Niger", "unknown", "24"), CountryRow("Russia", "1500", "n.d.")>>),
     CsvFile(CountryColumns \ {"year"},
             <<[c \in CountryColumns \ {"year"} |-> CountryRow("Niger", "13", "24")[c]]>>)}

DefaultCountryFile ==
    CsvFile(CountryColumns,
            <<CountryRow("Niger", "13", "24"), CountryRow("Russia", "1500", "144"),
              CountryRow("Germany", "3800", "83")>>)

(***************************************************************************)
(* 1_prepare-doajdata-fromjson.py and 2_inspect-doajdata.py                *)
(***************************************************************************)
\* save_data() of the JSON script: data.to_csv(outfile), the default
\* separator, to the path of the prepared file.
json_save_data(frame) == ToCsv(frame, ",")

\* A table as main() of the JSON script hands it to save_data(): the
\* columns of filter_data() and simplify_values().
JsonColumns ==
    {"eissn", "title", "created", "publication_time", "publisher_country", "apc",
     "created_early", "publication_time_fast", "pc_DE"}

JsonTable ==
    [dtype |-> [c \in JsonColumns |->
                    CASE c \in {"eissn", "title", "publisher_country"} -> "object"
                      [] c \in {"created", "publication_time"} -> "int64"
                      [] OTHER -> "bool"],
     index |-> <<0>>,
     rows  |-> <<[c \in JsonColumns |->
                    CASE c = "eissn" -> "1234-5678" [] c = "title" -> "Acta; Series B"
                      [] c = "publisher_country" -> "DE"
                      [] c = "created" -> 2004 [] c = "publication_time" -> 12
                      [] c = "pc_DE" -> TRUE
                      [] OTHER -> FALSE]>>]

JsonDumps == {[exists |-> TRUE, table |-> JsonTable]}

\* read_csv() of the inspection script: pd.read_csv(infile, index_col=0),
\* the default separator.  It raises without the file.
inspect_read_csv_raises(file) == ~file.exists

\* A file written with another separator has a header of one field; a line
\* with a comma in a field has more fields than that.
inspect_read_csv_may_raise(file) ==
    /\ file.exists
    /\ file.sep # ","
    /\ \E i \in DOMAIN file.rows : \E c \in file.columns : Contains(",", file.rows[i][c])

\* Of a file written with another separator every line is one field, which
\* index_col=0 makes the index (here the line's number): no column is left.
inspect_read_csv(file) ==
    IF file.sep = "," THEN PdReadCsv(file, TRUE)
    ELSE [dtype |-> <<>>,
          index |-> [i \in DOMAIN file.rows |-> i - 1],
          rows  |-> [i \in DOMAIN file.rows |-> <<>>]]

\* visualize_columns() raises KeyError for a column that is not there.
visualize_columns_raises(frame) ==
    ~({"publication-time-fast", "APC", "ORCIDs", "domain", "publisher-country"}
        \cup {"lang_" \o languages[n] : n \in DOMAIN languages} \subseteq Columns(frame))

(***************************************************************************)
(* The state machine.                                                      *)
(***************************************************************************)
Init ==
    /\ \/ /\ original \in Tables(SubjectRows, 1) \cup Tables(FeeGridRows, 1)
                          \cup Tables(MedianRows, MaxRows) \cup Tables(CountryRows, MaxRows)
                          \cup Tables(LanguageRows, MaxRows) \cup Tables(FeeRows, MaxRows)
                          \cup Tables(ScenarioRows, MaxEnrichRows)
                          \cup Tables(YesNoRows, MaxEnrichRows)
                          \cup Tables(PublicationRows, MaxRows)
                          \cup Tables(EnglishRows, MaxEnrichRows)
          /\ countryfile = DefaultCountryFile
          /\ jsondump = NoFile
       \/ /\ original \in Tables(StrictRows, MaxEnrichRows) \cup ShortTables
          /\ countryfile = DefaultCountryFile
          /\ jsondump \in {NoFile} \cup JsonDumps
       \/ /\ original \in Tables(EnrichRows, MaxEnrichRows)
          /\ countryfile \in CountryFiles
          /\ jsondump = NoFile
    /\ jpc = "read_json"
    /\ ipc = "read_csv"
    /\ iraised = "none"
    /\ idata = NoFrame
    /\ pc = "read_csv"
    /\ raised = "none"
    /\ data = NoFrame
    /\ prepared = NoFile
    /\ fpc = "read_csv"
    /\ fraised = "none"
    /\ fdata = NoFrame
    /\ apcs = NoFile

\* A step that saves what it has when it raises.
Step_saves_on_error(at, raises, result, to) ==
    /\ pc = at
    /\ IF raises THEN pc' = "aborted" /\ raised' = at /\ data' = data
                      /\ prepared' = ToCsv(data, ";")
       ELSE pc' = to /\ raised' = raised /\ data' = result /\ prepared' = prepared
    /\ UNCHANGED <<jsondump, jpc, ipc, iraised, idata, original, countryfile,
                   fpc, fraised, fdata, apcs>>

\* One step of main() of the primary pipeline: at `at`, the step raises and
\* the script ends, or it leaves the table `result` and main() goes on.
Step(at, raises, result, to) ==
    /\ pc = at
    /\ IF raises THEN pc' = "aborted" /\ raised' = at /\ data' = data
       ELSE pc' = to /\ raised' = raised /\ data' = result
    /\ UNCHANGED <<jsondump, jpc, ipc, iraised, idata, original, countryfile, prepared, fpc, fraised, fdata, apcs>>

ReadCsv ==
    /\ jpc \in {"done", "aborted"}
    /\ Step("read_csv", ~original.exists, read_csv(original), "simplify_names")

SimplifyNames ==
    Step("simplify_names", FALSE, simplify_names(data), "select_columns")

SelectColumns ==
    Step("select_columns", select_columns_raises(data), select_columns(data),
         "simplify_headers")

SimplifyHeaders ==
    Step("simplify_headers", FALSE, simplify_headers(data), "simplify_values")

SimplifyValues ==
    Step("simplify_values", simplify_values_raises(data), simplify_values(data),
         "simplify_subjects")

SimplifySubjects ==
    Step("simplify_subjects", simplify_raises(data), simplify_subjects(data),
         "one_hot_encoding")

OneHotEncoding ==
    Step("one_hot_encoding", one_hot_encoding_raises(data), one_hot_encoding(data),
         "filter_incomplete_data")

FilterIncompleteData ==
    Step("filter_incomplete_data", FALSE, filter_incomplete_data(data),
         "add_external_data")

AddExternalData ==
    Step("add_external_data", add_external_data_raises(data, countryfile),
         add_external_data(data, countryfile), "save_data")

SaveData ==
    /\ pc = "save_data"
    /\ prepared' = save_data(data)
    /\ pc' = "done"
    /\ UNCHANGED <<jsondump, jpc, ipc, iraised, idata, original, countryfile, raised, data, fpc, fraised, fdata, apcs>>

\* main() of 3_investigate_fees.py: read_csv().  The scripts are run in the
\* order of their numbers: the fee script starts once the inspection
\* script has ended, with the prepared file written or, after an abort of
\* the primary script, as it was.
FeeReadCsv ==
    /\ ipc \in {"visualize_features", "aborted"}
    /\ fpc = "read_csv"
    /\ IF fee_read_csv_raises(prepared)
       THEN fpc' = "aborted" /\ fraised' = "read_csv" /\ fdata' = fdata
       ELSE fpc' = "apc_in_eur" /\ fraised' = fraised /\ fdata' = fee_read_csv(prepared)
    /\ UNCHANGED <<jsondump, jpc, ipc, iraised, idata, original, countryfile, pc, raised, data, prepared, apcs>>

\* apc_in_eur(): the APC-EUR column, then the rows sorted by it.
ApcInEur ==
    /\ fpc = "apc_in_eur"
    /\ IF apc_in_eur_raises(fdata)
       THEN fpc' = "aborted" /\ fraised' = "apc_in_eur" /\ fdata' = fdata
       ELSE /\ fpc' = "save_data"
            /\ fraised' = fraised
            /\ \E order \in [1..Len(fdata.rows) -> 1..Len(fdata.rows)] :
                    /\ IsSortedDescending(WithApcEur(fdata), order)
                    /\ fdata' = Reorder(WithApcEur(fdata), order)
    /\ UNCHANGED <<jsondump, jpc, ipc, iraised, idata, original, countryfile, pc, raised, data, prepared, apcs>>

\* save_data() of the fee script; the histograms that follow write pictures.
FeeSaveData ==
    /\ fpc = "save_data"
    /\ apcs' = ToCsv(fdata, ";")
    /\ fpc' = "done"
    /\ UNCHANGED <<jsondump, jpc, ipc, iraised, idata, original, countryfile, pc, raised, data, prepared, fraised, fdata>>

\* main() of 1_prepare-doajdata-fromjson.py, the other script of number 1,
\* run before the primary one: read_json() raises without the dump, else
\* the table reaches save_data(), which writes the prepared file.
JsonMain ==
    /\ jpc = "read_json"
    /\ IF ~jsondump.exists
       THEN jpc' = "aborted" /\ prepared' = prepared
       ELSE jpc' = "done" /\ prepared' = json_save_data(jsondump.table)
    /\ UNCHANGED <<jsondump, ipc, iraised, idata, original, countryfile, pc, raised, data,
                   fpc, fraised, fdata, apcs>>

\* main() of 2_inspect-doajdata.py: read_csv(), then inspect_table(), which
\* prints.  A line with more fields than the header may end the parse.
InspectReadCsv ==
    /\ pc \in {"done", "aborted"}
    /\ ipc = "read_csv"
    /\ \/ /\ inspect_read_csv_raises(prepared) \/ inspect_read_csv_may_raise(prepared)
          /\ ipc' = "aborted" /\ iraised' = "read_csv" /\ idata' = idata
       \/ /\ ~inspect_read_csv_raises(prepared)
          /\ ipc' = "visualize_columns" /\ iraised' = iraised
          /\ idata' = inspect_read_csv(prepared)
    /\ UNCHANGED <<jsondump, jpc, original, countryfile, pc, raised, data, prepared,
                   fpc, fraised, fdata, apcs>>

\* visualize_columns(); visualize_features() after it draws pictures.
InspectVisualizeColumns ==
    /\ ipc = "visualize_columns"
    /\ IF visualize_columns_raises(idata)
       THEN ipc' = "aborted" /\ iraised' = "visualize_columns"
       ELSE ipc' = "visualize_features" /\ iraised' = iraised
    /\ UNCHANGED <<jsondump, jpc, idata, original, countryfile, pc, raised, data, prepared,
                   fpc, fraised, fdata, apcs>>

Next ==
    \/ ReadCsv \/ SimplifyNames \/ SelectColumns \/ SimplifyHeaders
    \/ SimplifyValues \/ SimplifySubjects \/ OneHotEncoding
    \/ FilterIncompleteData \/ AddExternalData \/ SaveData
    \/ FeeReadCsv \/ ApcInEur \/ FeeSaveData
    \/ JsonMain
    \/ InspectReadCsv
    \/ InspectVisualizeColumns

Spec == Init /\ [][Next]_vars

(***************************************************************************)
(* Properties.                                                             *)
(***************************************************************************)
HasColumn(frame, col) == col \in Columns(frame)

HasPrefix(t, prefix) == Len(t) >= Len(prefix) /\ SubSeq(t, 1, Len(prefix)) = prefix

\* The row of the original file that row k of the primary table was read from.
OriginalRow(k) == original.rows[data.index[k] + 1]

DomainLabels ==
    {"SocialSciences", "Science", "Medicine", "Humanities", "Technology",
     "Agriculture", "Education", "LIS", "General", "other"}

\* The positions of the keyword list whose keyword occurs in the text.
KeywordHits(t) == {k \in DOMAIN KeywordList : Contains(KeywordList[k][1], t)}

\* C1: once the domain column is there, every row's domain is one label of
\* the closed set: the label of the earliest keyword of the ordered list that
\* occurs (case-sensitively) in the row's subjects, "other" when none occurs;
\* subjects holding both "Social" and "Science" give SocialSciences.
C1_FirstKeywordWins ==
    HasColumn(data, "domain") =>
        \A i \in DOMAIN data.rows :
            LET t == data.rows[i]["subjects"]
                label == data.rows[i]["domain"]
                hits == KeywordHits(t)
            IN  /\ label \in DomainLabels
                /\ hits = {} => label = "other"
                /\ \A k \in hits : (\A h \in hits : k <= h) => label = KeywordList[k][2]
                /\ Contains("Social", t) /\ Contains("Science", t)
                        => label = "SocialSciences"

\* A classified row whose subjects hold "Social" and "Science", and the
\* label is SocialSciences.
C1_Witness ==
    /\ HasColumn(data, "domain")
    /\ \E i \in DOMAIN data.rows :
            /\ Contains("Social", data.rows[i]["subjects"])
            /\ Contains("Science", data.rows[i]["subjects"])
            /\ Contains("history", data.rows[i]["subjects"])
            /\ data.rows[i]["domain"] = "SocialSciences"

\* The year a field of the "Added on Date" column starts with.
YearOfField(t) == IntOfNumeral(SubSeq(t, 1, Min(4, Len(t))))

\* The added-date years of all rows of the original file.
AllYears == [r \in DOMAIN original.rows |-> YearOfField(original.rows[r]["Added on Date"])]

\* C2: once created-early is there (before and after the completeness
\* filter), every row's created-early is true iff the row's year is strictly
\* below the median of the years of all rows of the original file, the rows
\* without EISSN among them; a year at the median gives false.
C2_CreatedEarlyBelowMedianOfAll ==
    HasColumn(data, "created-early") =>
        LET median2 == Median2(AllYears)
        IN  \A k \in DOMAIN data.rows :
                LET year == YearOfField(OriginalRow(k)["Added on Date"])
                IN  /\ data.rows[k]["added-date"] = year
                    /\ data.rows[k]["created-early"] <=> (2 * year < median2)
                    /\ 2 * year = median2 => ~data.rows[k]["created-early"]

\* The pipeline has ended, a row without EISSN is gone, and a row that is
\* left lies at the median of all rows and has false, where the median of
\* the rows left would give it true.
C2_Witness ==
    /\ pc = "done"
    /\ Len(data.rows) < Len(original.rows)
    /\ \E k \in DOMAIN data.rows :
            /\ 2 * data.rows[k]["added-date"] = Median2(AllYears)
            /\ ~data.rows[k]["created-early"]
            /\ 2 * data.rows[k]["added-date"] < Median2(Column(data, "added-date"))

\* The completeness filter has run.
Filtered ==
    \/ pc \in {"add_external_data", "save_data", "done"}
    \/ pc = "aborted" /\ raised = "add_external_data"

\* C9: after filter_incomplete_data no row of the table lacks its EISSN, the
\* table has no more rows than before, and every row of the original file
\* with a non-empty EISSN field is in it, as it was before the filter.
C9_FilterKeepsRowsWithEISSN ==
    Filtered =>
        /\ \A k \in DOMAIN data.rows :
                /\ ~IsMissing(data.dtype["EISSN"], data.rows[k]["EISSN"])
                /\ OriginalRow(k)["Journal EISSN (online version)"] # ""
        /\ Len(data.rows) <= Len(original.rows)
        /\ \A r \in DOMAIN original.rows :
                original.rows[r]["Journal EISSN (online version)"] # ""
                    => \E k \in DOMAIN data.rows : data.index[k] = r - 1
        /\ \A k, l \in DOMAIN data.rows : k < l => data.index[k] < data.index[l]

\* The filter has dropped a row and kept one that lacks another field.
C9_Witness ==
    /\ Filtered
    /\ 0 < Len(data.rows)
    /\ Len(data.rows) < Len(original.rows)
    /\ \E k \in DOMAIN data.rows :
            IsMissing(data.dtype["publisher-country"], data.rows[k]["publisher-country"])

\* The columns of the table whose name starts with the prefix.
Indicators(prefix) == {c \in Columns(data) : HasPrefix(c, prefix)}

\* The columns of a set that are true in row k, and the indicator columns
\* of the prefix that are.
TrueOf(k, columns) == {c \in columns : data.rows[k][c]}

TrueIndicators(k, prefix) == TrueOf(k, Indicators(prefix))

\* one_hot_encoding() has run.
Encoded == HasColumn(data, "lang_Turkish")

\* C7: after one_hot_encoding, also after the filter and the enrichment,
\* every row has exactly one true pc_ column, the one named after its
\* country, when it has a country, and none when the country is missing;
\* and at most one true d_ column (the one named after its domain).
C7_OneHotCountryAndDomain ==
    Encoded =>
        LET pcs == Indicators("pc_")
            ds == Indicators("d_")
        IN  \A k \in DOMAIN data.rows :
                LET country == data.rows[k]["publisher-country"]
                    missing == IsMissing(data.dtype["publisher-country"], country)
                    pcTrue == TrueOf(k, pcs)
                    dTrue == TrueOf(k, ds)
                IN  /\ missing => pcTrue = {}
                    /\ ~missing => pcTrue =
                                    {"pc_" \o CellText(data.dtype["publisher-country"], country)}
                    /\ ~missing => Cardinality(pcTrue) = 1
                    /\ Cardinality(dTrue) <= 1
                    /\ dTrue = {"d_" \o data.rows[k]["domain"]}

\* The pipeline has ended after dropping a row; one row left has no country
\* and no pc_ column set, another has its own set while the column of a
\* country whose name contains its own is there and false.
C7_Witness ==
    /\ pc = "done"
    /\ Len(data.rows) < Len(original.rows)
    /\ data.dtype["publisher-country"] = "object"
    /\ \E k \in DOMAIN data.rows :
            /\ data.rows[k]["publisher-country"] = NaN
            /\ TrueIndicators(k, "pc_") = {}
    /\ \E k \in DOMAIN data.rows :
            /\ data.rows[k]["publisher-country"] = "Niger"
            /\ data.rows[k]["pc_Niger"]
            /\ "pc_Nigeria" \in Indicators("pc_")
            /\ ~data.rows[k]["pc_Nigeria"]

\* C8: after one_hot_encoding the lang_ columns are those of the 25 names of
\* the fixed list, whatever the data hold, and in every row lang_L is true
\* iff L occurs in the row's languages field (as read from the file),
\* each flag on its own.
C8_LanguageFlagsBySubstring ==
    Encoded =>
        /\ Len(languages) = 25
        /\ Indicators("lang_") = {"lang_" \o languages[n] : n \in DOMAIN languages}
        /\ Cardinality(Indicators("lang_")) = 25
        /\ \A k \in DOMAIN data.rows : \A n \in DOMAIN languages :
                data.rows[k]["lang_" \o languages[n]]
                    <=> Contains(languages[n],
                                 OriginalRow(k)["Languages in which the journal accepts manuscripts"])

\* A row with two flags set, a row whose flag comes from a longer word
\* (Malay in Malayalam), and a row with a language off the list and no flag.
C8_Witness ==
    /\ Encoded
    /\ \E k \in DOMAIN data.rows :
            /\ data.rows[k]["languages"] = "English, French"
            /\ data.rows[k]["lang_English"] /\ data.rows[k]["lang_French"]
    /\ \E k \in DOMAIN data.rows :
            data.rows[k]["languages"] = "Malayalam" /\ data.rows[k]["lang_Malay"]
    /\ \E k \in DOMAIN data.rows :
            /\ data.rows[k]["languages"] = "Esperanto"
            /\ TrueIndicators(k, "lang_") = {}

\* add_external_data() has run to its end.
Enriched == HasColumn(data, "population")

\* The rows of the reference file whose stateLabel is the country of row k.
Entries(k) ==
    IF IsMissing(data.dtype["publisher-country"], data.rows[k]["publisher-country"])
    THEN {}
    ELSE {j \in DOMAIN countryfile.rows :
            countryfile.rows[j]["stateLabel"] =
                CellText(data.dtype["publisher-country"], data.rows[k]["publisher-country"])}

\* The reference file's column holds numbers only (and gaps).
NumberColumn(label) ==
    \A j \in DOMAIN countryfile.rows :
        countryfile.rows[j][label] = "" \/ IsDecimalText(countryfile.rows[j][label])

\* int() gives a number for the field: a whole numeral, or a decimal one in
\* a column of numbers.
Convertible(j, label) ==
    \/ AllDigits(countryfile.rows[j][label])
    \/ NumberColumn(label) /\ IsDecimalText(countryfile.rows[j][label])

\* C10 as stated: a country with exactly one entry gets the entry's exact
\* numeric value; no entry, several entries or a value that is no number
\* give 0.
C10_ExactValueOrZero ==
    Enriched =>
        \A k \in DOMAIN data.rows : \A label \in {"gdp", "population"} :
            IF Cardinality(Entries(k)) = 1
            THEN LET t == countryfile.rows[CHOOSE j \in Entries(k) : TRUE][label]
                 IN  IF IsDecimalText(t) THEN 10 * data.rows[k][label] = TenthsOf(t)
                     ELSE data.rows[k][label] = 0
            ELSE data.rows[k][label] = 0

\* C10, amended: a country with exactly one entry gets the entry's value
\* cut to its whole part (exact for whole numbers); no entry, several
\* entries or a value int() cannot convert give 0; and the step raises for
\* no lookup: only for a reference file without "year" or a table without
\* rows.
C10_TruncatedValueOrZero ==
    /\ Enriched =>
        \A k \in DOMAIN data.rows : \A label \in {"gdp", "population"} :
            LET entries == Entries(k)
                j == CHOOSE e \in entries : TRUE
            IN  IF Cardinality(entries) = 1 /\ Convertible(j, label)
                THEN /\ data.rows[k][label] = TenthsOf(countryfile.rows[j][label]) \div 10
                     /\ AllDigits(countryfile.rows[j][label])
                            => data.rows[k][label] = IntOfDigits(countryfile.rows[j][label])
                ELSE data.rows[k][label] = 0
    /\ raised = "add_external_data" =>
            "year" \notin countryfile.columns \/ Len(data.rows) = 0

\* The pipeline has ended; one row has the whole part of a decimal entry and
\* 0 for a gap, one row without an entry has 0 and 0.
C10_Witness ==
    /\ pc = "done"
    /\ \E k \in DOMAIN data.rows :
            /\ data.rows[k]["publisher-country"] = "Niger"
            /\ \E j \in Entries(k) :
                    countryfile.rows[j]["gdp"] = "13.5" /\ countryfile.rows[j]["population"] = ""
            /\ data.rows[k]["gdp"] = 13
            /\ data.rows[k]["population"] = 0
    /\ \E k \in DOMAIN data.rows :
            /\ data.rows[k]["publisher-country"] = "Atlantis"
            /\ data.rows[k]["gdp"] = 0 /\ data.rows[k]["population"] = 0

\* apc_in_eur() has run.
Normalized == HasColumn(fdata, "APC-EUR")

\* The value of the APC-amount cell of row k of the fee table, as
\* Series.apply hands it to calculate_eur, and its text.
FeeValue(k) == PyValue(fdata.dtype["APC-amount"], fdata.rows[k]["APC-amount"])

FeeText(k) == FeeValue(k).text

\* The number of leading characters of t that are digits.
LeadingDigits(t) ==
    CHOOSE n \in 0..Len(t) :
        /\ \A i \in 1..n : Char(t, i) \in Digits
        /\ n < Len(t) => Char(t, n + 1) \notin Digits

\* The magnitude of a fee text: the number its leading digits write, 0
\* without any.
Magnitude(t) ==
    IF LeadingDigits(t) = 0 THEN 0 ELSE IntOfDigits(SubSeq(t, 1, LeadingDigits(t)))

HasCapitals(t) == \E i \in 1..Len(t) : Char(t, i) \in UpperCase

FirstCapitals(t) ==
    LET b == CHOOSE i \in 1..Len(t) :
                /\ Char(t, i) \in UpperCase
                /\ \A j \in 1..(i - 1) : Char(t, j) \notin UpperCase
        e == CHOOSE j \in b..Len(t) :
                /\ \A i \in b..j : Char(t, i) \in UpperCase
                /\ j < Len(t) => Char(t, j + 1) \notin UpperCase
    IN  SubSeq(t, b, e)

\* The rate table of calculate_eur: its codes, and the rate of a code in
\* units of 10^-8 (of a code with two branches, the first one's).
RateCodes == {"EUR"} \cup {Conversions[n][1] : n \in DOMAIN Conversions}

RateOf(code) ==
    IF code = "EUR" THEN 100000000
    ELSE LET hits == {n \in DOMAIN Conversions : Conversions[n][1] = code}
         IN  Conversions[CHOOSE n \in hits : \A h \in hits : n <= h][2]

SameAmount(a, b) == a.w = b.w /\ a.e8 = b.e8

\* The text converts: a magnitude above 0 and a code of the rate table.
Converts(t) == Magnitude(t) > 0 /\ HasCapitals(t) /\ FirstCapitals(t) \in RateCodes

\* C4: every normalized row whose text has a magnitude m > 0 and, as its
\* first run of capitals, a code of the rate table has APC-EUR = m times the
\* code's rate ("750EUR" 750, "500USD" 500 * 0.8919 = 445.95); every row of
\* magnitude 0 has APC-EUR 0, whatever its code ("USD").
C4_AmountTimesRate ==
    Normalized =>
        \A k \in DOMAIN fdata.rows :
            LET t == FeeText(k)
            IN  /\ Converts(t) =>
                    SameAmount(EurOf(fdata, k), Times(Magnitude(t), RateOf(FirstCapitals(t))))
                /\ Magnitude(t) = 0 => SameAmount(EurOf(fdata, k), IntAmount(0))
                /\ t = "750EUR" => SameAmount(EurOf(fdata, k), IntAmount(750))
                /\ t = "500USD" => EurOf(fdata, k) = [float |-> TRUE, w |-> 445, e8 |-> 95000000]
                /\ t = "USD" => SameAmount(EurOf(fdata, k), IntAmount(0))

\* The fee script has ended on three rows: 750 for "750EUR", 445.95 for
\* "500USD", and the rate of the first code for a text with two codes.
C4_Witness ==
    /\ fpc = "done"
    /\ \E k \in DOMAIN fdata.rows :
            FeeText(k) = "750EUR" /\ SameAmount(EurOf(fdata, k), IntAmount(750))
    /\ \E k \in DOMAIN fdata.rows :
            FeeText(k) = "500USD" /\ SameAmount(EurOf(fdata, k), Times(500, 89190000))
    /\ \E k \in DOMAIN fdata.rows :
            /\ FeeText(k) = "2000 EGP; 200 USD"
            /\ SameAmount(EurOf(fdata, k), Times(2000, 2890000))

\* The text has no magnitude or no code of the rate table.
Degenerate(t) == ~Converts(t)

\* The fields of the secondary output that hold the journal's title,
\* country, APC flag, raw amount, normalized amount and domain.
NamedFields == {"title", "publisher-country", "APC", "APC-amount", "APC-EUR", "domain"}

\* A field of the output that writes the amount 0.
Zero(field) == field \in {"0", "0.0"}

\* C5 as stated: the secondary output has, next to the title, country, APC
\* flag, raw amount, normalized amount and domain, a field with a currency
\* value, which is "XXX", with a normalized amount of 0, on every row whose
\* raw amount has magnitude 0 or no code of the rate table.
C5_CurrencyFieldUnknown ==
    apcs.exists =>
        \E c \in apcs.columns \ NamedFields :
            \A k \in DOMAIN apcs.rows :
                Degenerate(apcs.rows[k]["APC-amount"]) =>
                    apcs.rows[k][c] = "XXX" /\ Zero(apcs.rows[k]["APC-EUR"])

\* C5, amended: the secondary output has the index, the seven columns
\* read_csv keeps and APC-EUR, and no field for a currency; on every row
\* whose raw amount has magnitude 0 or no code of the rate table the
\* normalized amount is 0, and the code calculate_eur ends with is "XXX",
\* a local that no column receives.
C5_NoCurrencyFieldAmountZero ==
    /\ apcs.exists =>
        /\ apcs.columns = {""} \cup FeeColumns \cup {"APC-EUR"}
        /\ Len(apcs.rows) = Len(fdata.rows)
        /\ \A k \in DOMAIN apcs.rows :
                /\ apcs.rows[k]["APC-amount"] =
                        (IF FeeText(k) = "nan" THEN "" ELSE FeeText(k))
                /\ Degenerate(FeeText(k)) => Zero(apcs.rows[k]["APC-EUR"])
    /\ Normalized =>
        /\ Columns(fdata) = FeeColumns \cup {"APC-EUR"}
        /\ \A k \in DOMAIN fdata.rows :
                Degenerate(FeeText(k)) =>
                    /\ SameAmount(EurOf(fdata, k), IntAmount(0))
                    /\ calculate_eur_locals(FeeValue(k)).apc_curr = "XXX"

\* The secondary output is written with a row of magnitude 0, a row with a
\* magnitude and a code outside the rate table, and a row that converts:
\* 0 on the first two, and no field holds "XXX".
C5_Witness ==
    /\ apcs.exists
    /\ \E k \in DOMAIN apcs.rows :
            apcs.rows[k]["APC-amount"] = "" /\ Zero(apcs.rows[k]["APC-EUR"])
    /\ \E k \in DOMAIN apcs.rows :
            /\ Magnitude(apcs.rows[k]["APC-amount"]) > 0
            /\ Degenerate(apcs.rows[k]["APC-amount"])
            /\ Zero(apcs.rows[k]["APC-EUR"])
    /\ \E k \in DOMAIN apcs.rows : ~Zero(apcs.rows[k]["APC-EUR"])
    /\ \A k \in DOMAIN apcs.rows : \A c \in apcs.columns : apcs.rows[k][c] # "XXX"

\* The texts the claim names: none, no leading digit, no capital.
Unparseable(t) == t \in {"", "nan"} \/ Magnitude(t) = 0 \/ ~HasCapitals(t)

IsScenario(r) ==
    /\ original.rows[r]["Country of publisher"] = "Russian Federation"
    /\ original.rows[r]["Subjects"] = "Social Sciences; Law"
    /\ original.rows[r]["Languages in which the journal accepts manuscripts"] = "English, Russian"
    /\ original.rows[r]["APC amount"] = "750EUR"
    /\ original.rows[r]["Journal EISSN (online version)"] # ""

\* The rows of a table that carry the index label of row r of the original
\* file.
RowsOf(frame, r) == {k \in DOMAIN frame.rows : frame.index[k] = r - 1}

\* C11: a row of the original file with country "Russian Federation",
\* subjects "Social Sciences; Law", languages "English, Russian", APC amount
\* "750EUR" and an EISSN is, when the primary pipeline has ended, one row of
\* the table and of the prepared file with country "Russia", domain
\* "SocialSciences", English-only false, lang_English and lang_Russian
\* true; and when the fee script has ended, one row of its table and of its
\* file with APC-EUR 750.
C11_EndToEndScenario ==
    \A r \in DOMAIN original.rows :
        IsScenario(r) =>
            /\ pc = "done" =>
                /\ Cardinality(RowsOf(data, r)) = 1
                /\ \A k \in RowsOf(data, r) :
                        /\ data.rows[k]["publisher-country"] = "Russia"
                        /\ data.rows[k]["domain"] = "SocialSciences"
                        /\ data.rows[k]["English-only"] = FALSE
                        /\ data.rows[k]["lang_English"] = TRUE
                        /\ data.rows[k]["lang_Russian"] = TRUE
                        /\ data.rows[k]["APC-amount"] = "750EUR"
                        /\ prepared.rows[k][""] = TextOfNat(r - 1)
                        /\ prepared.rows[k]["publisher-country"] = "Russia"
                        /\ prepared.rows[k]["domain"] = "SocialSciences"
                        /\ prepared.rows[k]["English-only"] = "False"
                        /\ prepared.rows[k]["lang_English"] = "True"
                        /\ prepared.rows[k]["lang_Russian"] = "True"
            /\ pc = "done" => fpc # "aborted"
            /\ fpc = "done" =>
                /\ Cardinality(RowsOf(fdata, r)) = 1
                /\ \A k \in RowsOf(fdata, r) :
                        /\ fdata.rows[k]["publisher-country"] = "Russia"
                        /\ fdata.rows[k]["domain"] = "SocialSciences"
                        /\ SameAmount(EurOf(fdata, k), IntAmount(750))
                        /\ apcs.rows[k][""] = TextOfNat(r - 1)
                        /\ apcs.rows[k]["APC-EUR"] \in {"750", "750.0"}

\* Both scripts have ended on a file with the scenario's journal and a
\* neighbour with a higher fee, which stands before it in the fee table.
C11_Witness ==
    /\ pc = "done" /\ fpc = "done"
    /\ Len(original.rows) = 2
    /\ \E r \in DOMAIN original.rows :
            /\ IsScenario(r)
            /\ \E k \in RowsOf(fdata, r) :
                    k = 2 /\ SameAmount(EurOf(fdata, k), IntAmount(750))
            /\ \E k \in RowsOf(data, r) : data.rows[k]["publisher-country"] = "Russia"

\* The text's first four characters (all of it, when it is shorter) do not
\* write an integer.
NoYear(t) == ~IsIntNumeral(SubSeq(t, 1, Min(4, Len(t))))

\* The original file lacks a column select_columns expects, or a row's date
\* has no year at its start (a missing date included).
StrictFailure ==
    \/ ~(SelectedColumns \subseteq original.columns)
    \/ /\ "Added on Date" \in original.columns
       /\ \E r \in DOMAIN original.rows : NoYear(original.rows[r]["Added on Date"])

\* The prepared file as it is when the primary script starts.
PreparedBefore == IF jsondump.exists THEN json_save_data(jsondump.table) ELSE NoFile

Simplified == HasColumn(data, "CCBY")

\* The name simplify_headers gives a column of the original file.
ShortName(long) == IF long \in DOMAIN HeaderNames THEN HeaderNames[long] ELSE long

\* The cell holds the Python bool b.
HoldsBool(frame, k, c, b) == frame.dtype[c] = "bool" /\ frame.rows[k][c] = b

\* The cell holds the str t.
HoldsText(frame, k, c, t) == frame.dtype[c] = "object" /\ frame.rows[k][c] = t

\* No cell of the table is the str "Yes" or the str "No".
NoYesNoLeft ==
    \A k \in DOMAIN data.rows : \A c \in Columns(data) :
        ~HoldsText(data, k, c, "Yes") /\ ~HoldsText(data, k, c, "No")

\* The cells of text columns that held neither answer are as simplify_names
\* left them.
OthersUnchanged ==
    \A k \in DOMAIN data.rows : \A long \in SelectedColumns :
        LET t == OriginalRow(k)[long]
            c == ShortName(long)
        IN  data.dtype[c] = "object" /\ t \notin {"Yes", "No"} =>
                data.rows[k][c] = (CASE t = "" -> NaN
                                     [] t \in DOMAIN CountryNames -> CountryNames[t]
                                     [] OTHER -> t)

\* C13 as stated: after simplify_values, in every column, a cell that held
\* "Yes" holds the bool True and a cell that held "No" holds the bool False;
\* no cell is "Yes" or "No"; the other cells are unchanged.
C13_YesNoBecomeBooleans ==
    Simplified =>
        /\ \A k \in DOMAIN data.rows : \A long \in SelectedColumns :
                /\ OriginalRow(k)[long] = "Yes" => HoldsBool(data, k, ShortName(long), TRUE)
                /\ OriginalRow(k)[long] = "No" => HoldsBool(data, k, ShortName(long), FALSE)
        /\ NoYesNoLeft
        /\ OthersUnchanged

\* C13, amended: after simplify_values, in every column, a cell that held
\* "Yes" holds the str "True" and a cell that held "No" holds the str
\* "False" (no bool: the column stays a column of text); no cell is "Yes"
\* or "No"; the other cells, those that contain "Yes" or "No" among more
\* text included, are unchanged.
C13_YesNoBecomeTrueFalseText ==
    Simplified =>
        /\ \A k \in DOMAIN data.rows : \A long \in SelectedColumns :
                /\ OriginalRow(k)[long] = "Yes" => HoldsText(data, k, ShortName(long), "True")
                /\ OriginalRow(k)[long] = "No" => HoldsText(data, k, ShortName(long), "False")
        /\ NoYesNoLeft
        /\ OthersUnchanged

\* simplify_values has run on two journals: the title "No" is now the str
\* "False", the title "Yes and No" is as it was, and the APC answer "No"
\* is the str "False".
C13_Witness ==
    /\ Simplified
    /\ \E k \in DOMAIN data.rows :
            /\ OriginalRow(k)["Journal title"] = "No"
            /\ HoldsText(data, k, "title", "False")
            /\ OriginalRow(k)["APC"] = "No"
            /\ HoldsText(data, k, "APC", "False")
    /\ \E k \in DOMAIN data.rows : HoldsText(data, k, "title", "Yes and No")

\* The field of the original file the k-th row's publication time was read from.
WeeksField(k) ==
    OriginalRow(k)["Average number of weeks between article submission and publication"]

\* The publication times, in tenths of a week, of the rows of the original
\* file that have one.
WeeksPresent ==
    LET fields == [r \in DOMAIN original.rows |->
                     original.rows[r]["Average number of weeks between article submission and publication"]]
        Present(t) == t # ""
        present == SelectSeq(fields, Present)
    IN  [i \in DOMAIN present |-> TenthsOf(present[i])]

\* C14: once publication-time-fast is there (before and after the
\* completeness filter), a row's flag is true iff the row has a publication
\* time and it is strictly below the median of the publication times of the
\* rows of the original file that have one; a time at the median gives
\* false, a row without a time has false and leaves the other rows' flags
\* as they are.
C14_FastBelowMedianOfPresent ==
    HasColumn(data, "publication-time-fast") =>
        \A k \in DOMAIN data.rows :
            data.rows[k]["publication-time-fast"]
                <=> /\ WeeksField(k) # ""
                    /\ 2 * TenthsOf(WeeksField(k)) < Median2(WeeksPresent)

\* The language indicators of the fixed list, but for lang_English.
OtherLanguageColumns == {"lang_" \o l : l \in Range(languages) \ {"English"}}

\* C15: once the language indicators are there, and in the file the
\* pipeline saves, every row with English-only true has lang_English true
\* and every other lang_ column of the list false, and every row with
\* lang_English false has English-only false.
C15_EnglishOnlyAgreesWithIndicators ==
    /\ Encoded =>
            \A k \in DOMAIN data.rows :
                LET row == data.rows[k]
                IN  /\ row["English-only"] = TRUE =>
                            /\ row["lang_English"] = TRUE
                            /\ \A c \in OtherLanguageColumns : row[c] = FALSE
                    /\ row["lang_English"] = FALSE => row["English-only"] = FALSE
    /\ pc = "done" =>
            \A k \in DOMAIN prepared.rows :
                LET row == prepared.rows[k]
                IN  /\ row["English-only"] = "True" =>
                            /\ row["lang_English"] = "True"
                            /\ \A c \in OtherLanguageColumns : row[c] = "False"
                    /\ row["lang_English"] = "False" => row["English-only"] = "False"

\* The pipeline has saved a table with a journal that takes English only
\* (English-only true, lang_English the one true indicator), a journal
\* that takes English and French (lang_English and lang_French true,
\* English-only false), or the first of them and a journal that takes
\* German (lang_English false, English-only false).
C15_Witness ==
    /\ pc = "done"
    /\ \E k \in DOMAIN data.rows :
            /\ data.rows[k]["languages"] = "English"
            /\ data.rows[k]["English-only"] = TRUE
            /\ data.rows[k]["lang_English"] = TRUE
            /\ prepared.rows[k]["English-only"] = "True"
    /\ \E k \in DOMAIN data.rows :
            /\ data.rows[k]["languages"] = "German"
            /\ data.rows[k]["lang_English"] = FALSE
            /\ data.rows[k]["lang_German"] = TRUE
            /\ data.rows[k]["English-only"] = FALSE

\* The columns the file at the prepared path holds, the index column aside.
Persisted == prepared.columns \ {""}

\* The file at the prepared path is in the format save_data() of the primary
\* pipeline writes: fields separated by semicolons.
PreparedInPrimaryFormat == prepared.exists => prepared.sep = ";"

\* The inspection script has read the prepared file.
InspectionHasRead == ipc # "read_csv" /\ prepared.exists

\* read_csv() of the inspection script parses the file that is there, and
\* its table has the columns that were persisted.
InspectionSeesPersisted ==
    InspectionHasRead => iraised # "read_csv" /\ Columns(idata) = Persisted

\* read_csv() of the fee script has parsed the prepared file: the columns
\* it selects are among those persisted and make up its table.
FeeSeesPersisted ==
    fpc \notin {"read_csv", "aborted"} \/ (fpc = "aborted" /\ fraised # "read_csv") =>
        FeeColumns \subseteq Persisted /\ Columns(fdata) \ {"APC-EUR"} = FeeColumns

\* C16: the file at the prepared path is only ever in the format of the
\* primary pipeline's save_data (semicolons, the index in the first column),
\* and the fee script and the inspection script both parse it in that
\* format, so that each sees the columns that were persisted.
C16_PreparedReadAsWritten ==
    /\ PreparedInPrimaryFormat
    /\ InspectionSeesPersisted
    /\ FeeSeesPersisted

====
